---- MODULE Spec2Model ----
(***************************************************************************)
(* Movie watch-list manager (src/script.js): the catalog `movies`, the     *)
(* view state (currentFilter, currentQuery), the rendered list, the stats  *)
(* line, the form hint and the random-pick line, driven by the handlers    *)
(* of script.js.  Strings are TLA+ strings, taken apart character by      *)
(* character with Len and SubSeq.                                          *)
(***************************************************************************)
EXTENDS Integers, Sequences, FiniteSets, TLC

VARIABLES
    movies,         \* script.js:20   the catalog, a sequence of records
    currentFilter,  \* script.js:27
    currentQuery,   \* script.js:28
    listEl,         \* script.js:13   the <li> elements renderList last built
    statsText,      \* script.js:14   what updateStats last wrote
    formHint,       \* script.js:15   what showHint last wrote
    randomOut,      \* script.js:17   what pickRandom last wrote
    issued,         \* history: every id cryptoRandomId has returned so far
    last,           \* history: the event handled last, with its arguments
    events          \* history: the number of events handled so far

vars == <<movies, currentFilter, currentQuery, listEl, statsText, formHint,
          randomOut, issued, last, events>>

---------------------------------------------------------------------------
(* Bounds of the model *)

\* Behaviours are explored up to this many events (calls or user-interface events).
MaxEvents == 2
\* cryptoRandomId draws from 36^8 strings; the model draws from this many.
NumIds == 3

---------------------------------------------------------------------------
(* JavaScript strings *)

LowerLetters == "abcdefghijklmnopqrstuvwxyz"
UpperLetters == "ABCDEFGHIJKLMNOPQRSTUVWXYZ"
Digits == "0123456789"

CharAt(s, i) == SubSeq(s, i, i)

\* the position of character c in alphabet, 0 when it is not there
PosIn(c, alphabet) ==
    IF \E i \in 1..Len(alphabet) : CharAt(alphabet, i) = c
    THEN CHOOSE i \in 1..Len(alphabet) : CharAt(alphabet, i) = c
    ELSE 0

UpperOf == [c \in {CharAt(LowerLetters, i) : i \in 1..26} |->
               CharAt(UpperLetters, PosIn(c, LowerLetters))]
LowerOf == [c \in {CharAt(UpperLetters, i) : i \in 1..26} |->
               CharAt(LowerLetters, PosIn(c, UpperLetters))]
DigitOf == [c \in {CharAt(Digits, i) : i \in 1..10} |-> PosIn(c, Digits) - 1]

\* String.prototype.toUpperCase / toLowerCase on one character
UpperChar(c) == IF c \in DOMAIN UpperOf THEN UpperOf[c] ELSE c
LowerChar(c) == IF c \in DOMAIN LowerOf THEN LowerOf[c] ELSE c

\* String.prototype.toLowerCase: every character mapped, halves at a time
RECURSIVE toLowerCase(_)
toLowerCase(s) ==
    IF Len(s) = 0 THEN ""
    ELSE IF Len(s) = 1 THEN LowerChar(s)
    ELSE toLowerCase(SubSeq(s, 1, Len(s) \div 2))
         \o toLowerCase(SubSeq(s, Len(s) \div 2 + 1, Len(s)))

IsWhitespace(c) == c \in {" ", "\t", "\n"}

RECURSIVE trimStart(_)
trimStart(s) ==
    IF s # "" /\ IsWhitespace(CharAt(s, 1)) THEN trimStart(SubSeq(s, 2, Len(s))) ELSE s

RECURSIVE trimEnd(_)
trimEnd(s) ==
    IF s # "" /\ IsWhitespace(CharAt(s, Len(s)))
    THEN trimEnd(SubSeq(s, 1, Len(s) - 1)) ELSE s

\* String.prototype.trim
trim(s) == trimEnd(trimStart(s))

\* s.startsWith(q)
startsWith(s, q) == Len(q) <= Len(s) /\ SubSeq(s, 1, Len(q)) = q

\* s.indexOf(q) + 1: the first position where q occurs in s, 0 when it does not
indexOf(s, q) ==
    LET hits == {k \in 1..(Len(s) - Len(q) + 1) : SubSeq(s, k, k + Len(q) - 1) = q}
    IN IF hits = {} THEN 0 ELSE CHOOSE k \in hits : \A j \in hits : k <= j

\* String.prototype.includes
includes(s, q) == indexOf(s, q) > 0

\* t.replace(/ {2,}/g, " "): every run of two or more spaces becomes one space
RECURSIVE collapseSpaces(_)
collapseSpaces(s) ==
    IF s = "" THEN ""
    ELSE IF startsWith(s, "  ") THEN collapseSpaces(SubSeq(s, 2, Len(s)))
    ELSE CharAt(s, 1) \o collapseSpaces(SubSeq(s, 2, Len(s)))

\* s.split(" "): the sequence of the pieces between single spaces
RECURSIVE split(_)
split(s) ==
    LET k == indexOf(s, " ") IN
    IF k = 0 THEN <<s>>
    ELSE <<SubSeq(s, 1, k - 1)>> \o split(SubSeq(s, k + 1, Len(s)))

\* words.join(" ")
RECURSIVE join(_)
join(words) ==
    IF Len(words) = 0 THEN ""
    ELSE IF Len(words) = 1 THEN words[1]
    ELSE words[1] \o " " \o join(Tail(words))

\* word => word[0] ? word[0].toUpperCase() + word.slice(1).toLowerCase() : ""
capitalize(word) ==
    IF word = "" THEN ""
    ELSE UpperChar(CharAt(word, 1)) \o toLowerCase(SubSeq(word, 2, Len(word)))

sanitizeTitle(raw) ==
    IF raw = "" THEN ""
    ELSE LET t1 == trim(raw)
             t2 == IF includes(t1, "  ") THEN collapseSpaces(t1) ELSE t1
             words == split(t2)
         IN join([i \in 1..Len(words) |-> capitalize(words[i])])

---------------------------------------------------------------------------
(* JavaScript numbers, as far as the year needs them *)

Null == [t |-> "null"]
NaN == [t |-> "nan"]
Num(n) == [t |-> "num", v |-> n]

IsDigits(s) == s # "" /\ \A i \in 1..Len(s) : CharAt(s, i) \in DOMAIN DigitOf

RECURSIVE DecimalValue(_)
DecimalValue(s) ==
    IF s = "" THEN 0
    ELSE 10 * DecimalValue(SubSeq(s, 1, Len(s) - 1)) + DigitOf[CharAt(s, Len(s))]

\* Number(string) on whitespace, signed decimal integers and non-numeric text
\* (fractions, exponents and radix prefixes are not among the modelled inputs)
Number(s) ==
    LET t == trim(s) IN
    IF t = "" THEN Num(0)
    ELSE IF IsDigits(t) THEN Num(DecimalValue(t))
    ELSE IF CharAt(t, 1) = "-" /\ IsDigits(SubSeq(t, 2, Len(t)))
         THEN Num(0 - DecimalValue(SubSeq(t, 2, Len(t))))
    ELSE IF CharAt(t, 1) = "+" /\ IsDigits(SubSeq(t, 2, Len(t)))
         THEN Num(DecimalValue(SubSeq(t, 2, Len(t))))
    ELSE NaN

\* ToBoolean of a year value: null, NaN and 0 are falsy
Truthy(y) == y.t = "num" /\ y.v # 0

\* a === b on year values: NaN is not equal to itself
StrictEquals(a, b) == a.t # "nan" /\ b.t # "nan" /\ a = b

---------------------------------------------------------------------------
(* Helpers of script.js *)

\* The strings cryptoRandomId can return: Math.random().toString(36).slice(2, 10)
\* is a random choice with nothing that remembers earlier results, so the result
\* is one of the strings returned before (used) or a new one.  Ids are only ever
\* compared for equality, so which new string it is does not matter: the model
\* takes the first unused of "1", "2", ...
cryptoRandomId(used) ==
    IF Cardinality(used) < NumIds
    THEN used \cup {ToString(Cardinality(used) + 1)}
    ELSE used

showHint(text, type) ==
    [ textContent |-> text,
      className   |-> IF type = "ok" THEN "muted badge ok"
                      ELSE IF type = "warn" THEN "muted badge warn"
                      ELSE "muted" ]

\* the callback of movies.filter in getVisibleMovies; q is already trimmed and lowercased
matchesVisible(m, filter, q) ==
    LET matchesFilter == \/ filter = "all"
                         \/ (filter = "watched" /\ m.watched)
                         \/ (filter = "unwatched" /\ ~m.watched)
        matchesQuery == q = "" \/ includes(toLowerCase(m.title), q)
    IN matchesFilter /\ matchesQuery

\* Array.prototype.filter with that callback: left to right, keeping the order
RECURSIVE filterVisible(_, _, _)
filterVisible(ms, filter, q) ==
    IF Len(ms) = 0 THEN <<>>
    ELSE (IF matchesVisible(Head(ms), filter, q) THEN <<Head(ms)>> ELSE <<>>)
         \o filterVisible(Tail(ms), filter, q)

\* a slip: currentQuery.toLowerCase() without the trim()
getVisibleMoviesUntrimmed(ms, filter, query) ==
    filterVisible(ms, filter, toLowerCase(query))

getVisibleMovies(ms, filter, query) ==
    filterVisible(ms, filter, toLowerCase(trim(query)))

\* What the HTML parser makes of a title that li.innerHTML receives unescaped
\* inside <strong>: a title holding the markup
\*   <li/class='movie'/data-id='ID'><button/data-action='ACTION'>
\* yields a nested li.movie element with data-id ID, holding a button with that
\* data-action.  The sequence of the nested elements' [id, action], left to right.
LiOpen == "<li/class='movie'/data-id='"
ButtonOpen == "'><button/data-action='"

\* the attribute value that s starts with: the text before the closing quote
upToQuote(s) ==
    LET k == indexOf(s, "'") IN IF k = 0 THEN s ELSE SubSeq(s, 1, k - 1)

RECURSIVE nestedItems(_)
nestedItems(html) ==
    LET p == indexOf(html, LiOpen) IN
    IF p = 0 THEN <<>>
    ELSE LET afterLi == SubSeq(html, p + Len(LiOpen), Len(html))
             dataId  == upToQuote(afterLi)
             afterId == SubSeq(afterLi, Len(dataId) + 1, Len(afterLi))
         IN IF startsWith(afterId, ButtonOpen)
            THEN LET afterButton == SubSeq(afterId, Len(ButtonOpen) + 1, Len(afterId))
                     dataAction  == upToQuote(afterButton)
                 IN <<[id |-> dataId, action |-> dataAction]>>
                    \o nestedItems(SubSeq(afterButton, Len(dataAction) + 1, Len(afterButton)))
            ELSE nestedItems(afterLi)

\* one <li> of renderList
renderItem(m) ==
    [ id        |-> m.id,                                  \* li.dataset.id
      className |-> IF m.watched THEN "movie watched" ELSE "movie",
      title     |-> m.title,
      yearBadge |-> IF Truthy(m.year) THEN ToString(m.year.v) ELSE "",
      label     |-> IF m.watched THEN "Mark Unwatched" ELSE "Mark Watched",
      nested    |-> nestedItems(m.title) ]

renderList(ms, filter, query) ==
    LET items == getVisibleMovies(ms, filter, query)
    IN [i \in 1..Len(items) |-> renderItem(items[i])]

\* the for loop of updateStats: the number of watched records among ms[1..n]
RECURSIVE countWatched(_, _)
countWatched(ms, n) ==
    IF n = 0 THEN 0
    ELSE countWatched(ms, n - 1) + (IF ms[n].watched THEN 1 ELSE 0)

\* a slip: the loop stops one record early (i < movies.length - 1)
updateStatsShortLoop(ms) ==
    LET watched == countWatched(ms, IF Len(ms) = 0 THEN 0 ELSE Len(ms) - 1)
        total   == Len(ms)
    IN [total |-> total, watched |-> watched, remaining |-> total - watched]

updateStats(ms) ==
    LET watched == countWatched(ms, Len(ms))
        total   == Len(ms)
    IN [total |-> total, watched |-> watched, remaining |-> total - watched]

---------------------------------------------------------------------------
(* addMovie *)

parseYear(year) == IF year # "" THEN Number(year) ELSE Null

\* yr && (yr < 1888 || yr > 2100)
yearLooksOff(yr) == Truthy(yr) /\ (yr.v < 1888 \/ yr.v > 2100)

\* movies.some(m => m.title.toLowerCase() === cleanTitle.toLowerCase()
\*                  && (!!m.year) === (!!yr) && m.year === yr)
exists(ms, cleanTitle, yr) ==
    LET wanted == toLowerCase(cleanTitle) IN
    \E i \in 1..Len(ms) :
        /\ toLowerCase(ms[i].title) = wanted
        /\ Truthy(ms[i].year) = Truthy(yr)
        /\ StrictEquals(ms[i].year, yr)

\* a slip: movies.unshift(...) instead of movies.push(...)
unshift(ms, id, cleanTitle, yr) ==
    <<[id |-> id, title |-> cleanTitle, year |-> yr, watched |-> FALSE]>> \o ms

\* movies.push({ id, title: cleanTitle, year: yr, watched: false })
push(ms, id, cleanTitle, yr) ==
    Append(ms, [id |-> id, title |-> cleanTitle, year |-> yr, watched |-> FALSE])

addMovie(title, year) ==
    LET cleanTitle == sanitizeTitle(title)
        yr == parseYear(year)
    IN
    /\ last' = [op |-> "addMovie", title |-> title, year |-> year]
    /\ UNCHANGED <<currentFilter, currentQuery, randomOut>>
    /\ IF cleanTitle = ""
       THEN /\ formHint' = showHint("Please enter a title.", "warn")
            /\ UNCHANGED <<movies, listEl, statsText, issued>>
       ELSE IF yearLooksOff(yr)
       THEN /\ formHint' = showHint("Year looks off. Try something between 1888 and 2100.", "warn")
            /\ UNCHANGED <<movies, listEl, statsText, issued>>
       ELSE IF exists(movies, cleanTitle, yr)
       THEN /\ formHint' = showHint("\"" \o cleanTitle \o "\" is already on your list.", "warn")
            /\ UNCHANGED <<movies, listEl, statsText, issued>>
       ELSE \E id \in cryptoRandomId(issued) :
            /\ movies' = push(movies, id, cleanTitle, yr)
            /\ issued' = issued \cup {id}
            /\ formHint' = showHint("Added \"" \o cleanTitle \o "\".", "ok")
            /\ listEl' = renderList(movies', currentFilter, currentQuery)
            /\ statsText' = updateStats(movies')

---------------------------------------------------------------------------
(* toggleWatched *)

\* movies.find(x => x.id === id): the index of the first match, 0 for undefined
find(ms, id) ==
    IF \E i \in 1..Len(ms) : ms[i].id = id
    THEN CHOOSE i \in 1..Len(ms) : ms[i].id = id /\ \A j \in 1..(i - 1) : ms[j].id # id
    ELSE 0

\* a slip: m.watched = true instead of m.watched = !m.watched
setWatched(ms, i) == [ms EXCEPT ![i].watched = TRUE]

\* m.watched = !m.watched on the record found
flipWatched(ms, i) == [ms EXCEPT ![i].watched = ~@]

toggleWatched(id) ==
    LET m == find(movies, id) IN
    /\ last' = [op |-> "toggleWatched", id |-> id, found |-> m # 0]
    /\ UNCHANGED <<currentFilter, currentQuery, randomOut, formHint, issued>>
    /\ IF m = 0
       THEN UNCHANGED <<movies, listEl, statsText>>
       ELSE /\ movies' = flipWatched(movies, m)
            /\ listEl' = renderList(movies', currentFilter, currentQuery)
            /\ statsText' = updateStats(movies')

---------------------------------------------------------------------------
(* removeMovie *)

\* movies.filter(m => m.id !== id)
RECURSIVE withoutId(_, _)
withoutId(ms, id) ==
    IF Len(ms) = 0 THEN <<>>
    ELSE (IF Head(ms).id # id THEN <<Head(ms)>> ELSE <<>>) \o withoutId(Tail(ms), id)

removeMovie(id) ==
    /\ last' = [op |-> "removeMovie", id |-> id, found |-> find(movies, id) # 0]
    /\ UNCHANGED <<currentFilter, currentQuery, randomOut, formHint, issued>>
    /\ movies' = withoutId(movies, id)
    /\ listEl' = renderList(movies', currentFilter, currentQuery)
    /\ statsText' = updateStats(movies')

---------------------------------------------------------------------------
(* pickRandom *)

pickText(choice) ==
    "Tonight's pick: \"" \o choice.title \o "\""
    \o (IF Truthy(choice.year) THEN " (" \o ToString(choice.year.v) \o ")" ELSE "") \o "!"

pickRandom ==
    LET visible == getVisibleMovies(movies, currentFilter, currentQuery) IN
    /\ last' = [op |-> "pickRandom"]
    /\ UNCHANGED <<movies, currentFilter, currentQuery, listEl, statsText, formHint, issued>>
    /\ IF Len(visible) = 0
       THEN randomOut' = "Nothing to pick from. Try adjusting your filter or add movies."
       ELSE \E k \in 1..Len(visible) : randomOut' = pickText(visible[k])

---------------------------------------------------------------------------
(* Inputs *)

\* a title whose markup nests an li.movie with a data-id no record has ("!" is
\* no base-36 digit) around a toggle button; sanitizeTitle leaves it as it is
MarkupTitle == "<li/class='movie'/data-id='!'><button/data-action='toggle'>x</button></li>"

\* what the user types into titleInput and yearInput
TitleInputs == {"", " get   out ", "dune", MarkupTitle}
YearInputs == {"", "2017"}
\* the options of filterSelect and what the user types into searchInput
FilterOptions == {"all", "watched", "unwatched"}
SearchInputs == {"", " OUT ", "n"}

\* the arguments of direct calls
CallTitles == {"   ", " get   out ", "dune"}
CallYears == {"", "0", "abc", "1887", "1888", "2100", "2101"}
CallIds == {ToString(i) : i \in 1..NumIds} \cup {"!"}

---------------------------------------------------------------------------
(* Event listeners *)

\* one more event is handled
Handled == events < MaxEvents /\ events' = events + 1

\* addForm "submit"
Submit ==
    /\ Handled
    /\ \E title \in TitleInputs, year \in YearInputs : addMovie(title, year)

\* listEl "click" on a button of the i-th rendered <li>
ClickButton ==
    /\ Handled
    /\ \E i \in 1..Len(listEl), action \in {"toggle", "remove"} :
          IF action = "toggle" THEN toggleWatched(listEl[i].id)
          ELSE removeMovie(listEl[i].id)

\* listEl "click" on the button of an li.movie nested in the i-th rendered <li>:
\* closest("li.movie") is the nested element
ClickNested ==
    /\ Handled
    /\ \E i \in 1..Len(listEl) : \E j \in 1..Len(listEl[i].nested) :
          LET n == listEl[i].nested[j] IN
          IF n.action = "toggle" THEN toggleWatched(n.id)
          ELSE IF n.action = "remove" THEN removeMovie(n.id)
          ELSE /\ last' = [op |-> "click"]
               /\ UNCHANGED <<movies, currentFilter, currentQuery, listEl, statsText,
                              formHint, randomOut, issued>>

\* listEl "click" outside any button[data-action]: the listener returns
ClickElsewhere ==
    /\ Handled
    /\ last' = [op |-> "click"]
    /\ UNCHANGED <<movies, currentFilter, currentQuery, listEl, statsText,
                   formHint, randomOut, issued>>

\* filterSelect "change"
FilterChange ==
    /\ Handled
    /\ \E value \in FilterOptions :
          /\ currentFilter' = value
          /\ listEl' = renderList(movies, currentFilter', currentQuery)
          /\ statsText' = updateStats(movies)
          /\ last' = [op |-> "filterChange"]
          /\ UNCHANGED <<movies, currentQuery, formHint, randomOut, issued>>

\* searchInput "input"
SearchInput ==
    /\ Handled
    /\ \E value \in SearchInputs :
          /\ currentQuery' = value
          /\ listEl' = renderList(movies, currentFilter, currentQuery')
          /\ statsText' = updateStats(movies)
          /\ last' = [op |-> "searchInput"]
          /\ UNCHANGED <<movies, currentFilter, formHint, randomOut, issued>>

\* randomBtn "click"
RandomClick == Handled /\ pickRandom

---------------------------------------------------------------------------
(* Direct calls of the three catalog operations, with any argument *)

AddCall ==
    /\ Handled
    /\ \E title \in CallTitles, year \in CallYears : addMovie(title, year)

ToggleCall == Handled /\ \E id \in CallIds : toggleWatched(id)

RemoveCall == Handled /\ \E id \in CallIds : removeMovie(id)

---------------------------------------------------------------------------
(* The page after the script has run: seed data, initial render *)

seed(id1, id2, id3) ==
    << [id |-> id1, title |-> "The Iron Giant", year |-> Num(1999), watched |-> FALSE],
       [id |-> id2, title |-> "Get Out",        year |-> Num(2017), watched |-> TRUE],
       [id |-> id3, title |-> "Your Name",      year |-> Num(2016), watched |-> FALSE] >>

Init ==
    /\ \E id1 \in cryptoRandomId({}) :
       \E id2 \in cryptoRandomId({id1}) :
       \E id3 \in cryptoRandomId({id1, id2}) :
          /\ movies = seed(id1, id2, id3)
          /\ issued = {id1, id2, id3}
    /\ currentFilter = "all"
    /\ currentQuery = ""
    /\ listEl = renderList(movies, currentFilter, currentQuery)
    /\ statsText = updateStats(movies)
    /\ formHint = showHint("Add a movie to get started.", "muted")
    /\ randomOut = ""
    /\ last = [op |-> "load"]
    /\ events = 0

\* the page driven by its user
Next ==
    \/ Submit
    \/ ClickButton
    \/ ClickNested
    \/ ClickElsewhere
    \/ FilterChange
    \/ SearchInput
    \/ RandomClick

Spec == Init /\ [][Next]_vars

\* the catalog operations called in any order with any argument
NextCalls ==
    \/ AddCall
    \/ ToggleCall
    \/ RemoveCall

SpecCalls == Init /\ [][NextCalls]_vars

---------------------------------------------------------------------------
(* Properties of the catalog *)

\* the year is absent, or an integer in [1888, 2100]
yearInRange(y) == y = Null \/ (y.t = "num" /\ y.v >= 1888 /\ y.v <= 2100)

\* C1: every record of the catalog has a year that is null or an integer in
\* [1888, 2100], whatever raw year strings addMovie was given.
C1_YearsInRange == \A i \in 1..Len(movies) : yearInRange(movies[i].year)

\* C2: no two distinct records of the catalog have the same lowercased title and
\* the same year (two absent years being the same year).
C2_NoDuplicatePairs ==
    \A i \in 1..Len(movies) : \A j \in (i + 1)..Len(movies) :
        ~ /\ toLowerCase(movies[i].title) = toLowerCase(movies[j].title)
          /\ movies[i].year = movies[j].year

\* C3: no two records of the catalog have the same id (an id cryptoRandomId has
\* returned is never returned again).
C3_IdsNeverRepeat ==
    \A i \in 1..Len(movies) : \A j \in (i + 1)..Len(movies) : movies[i].id # movies[j].id

---------------------------------------------------------------------------
(* What the specification says of the arguments of addMovie *)

\* the raw year is absent, or an integer in [1888, 2100]
yearAccepted(year) == year = "" \/ yearInRange(Number(year))

\* a record of ms has the normalized title (case-insensitively) and the same year
duplicateOf(ms, title, year) ==
    LET wanted == toLowerCase(sanitizeTitle(title))
        y == IF year = "" THEN Null ELSE Number(year)
    IN \E i \in 1..Len(ms) : ms[i].year = y /\ toLowerCase(ms[i].title) = wanted

passesValidation(ms, title, year) ==
    /\ yearAccepted(year)
    /\ sanitizeTitle(title) # ""
    /\ ~duplicateOf(ms, title, year)

\* C4: whenever addMovie fails validation (the title normalizes to empty, the
\* year is outside [1888, 2100], or the record duplicates an existing one), the
\* catalog after the call is the catalog before it and a warn hint is shown.
C4_FailedAddLeavesCatalog ==
    [][(last'.op = "addMovie" /\ ~passesValidation(movies, last'.title, last'.year)) =>
          /\ movies' = movies
          /\ formHint'.className = "muted badge warn"]_vars

\* C5: whenever addMovie passes validation, the catalog afterwards is the catalog
\* before with exactly one record appended at the end, holding the normalized
\* title, the parsed year (null when absent) and watched = false; the records
\* before it keep their fields and order.
C5_ValidAddAppends ==
    [][(last'.op = "addMovie" /\ passesValidation(movies, last'.title, last'.year)) =>
          /\ Len(movies') = Len(movies) + 1
          /\ SubSeq(movies', 1, Len(movies)) = movies
          /\ movies'[Len(movies')].title = sanitizeTitle(last'.title)
          /\ movies'[Len(movies')].year =
                (IF last'.year = "" THEN Null ELSE Number(last'.year))
          /\ movies'[Len(movies')].watched = FALSE]_vars

\* a valid add of " get   out " without a year has appended ("Get Out", null, false)
\* behind the three seed records
C5_Witness ==
    /\ last.op = "addMovie" /\ last.title = " get   out " /\ last.year = ""
    /\ Len(movies) = 4
    /\ movies[1].title = "The Iron Giant" /\ movies[3].title = "Your Name"
    /\ movies[4].title = "Get Out" /\ movies[4].year = Null /\ ~movies[4].watched

---------------------------------------------------------------------------
(* toggleWatched and removeMovie *)

\* the positions of the records of ms with this id
positionsOf(ms, id) == {i \in 1..Len(ms) : ms[i].id = id}

\* the catalog toggleWatched(id) leaves
toggled(ms, id) == IF find(ms, id) = 0 THEN ms ELSE flipWatched(ms, find(ms, id))

\* C6: toggleWatched(id) with an id of the catalog flips the watched flag of the
\* record with that id (the first one, should several have it) and changes
\* nothing else of the catalog; with an id not in the catalog it changes nothing;
\* toggling twice with the same id gives back the catalog.
C6_ToggleFlipsOneFlag ==
    /\ [][last'.op = "toggleWatched" =>
            IF positionsOf(movies, last'.id) = {}
            THEN movies' = movies
            ELSE \E i \in positionsOf(movies, last'.id) :
                    /\ \A j \in positionsOf(movies, last'.id) : i <= j
                    /\ Len(movies') = Len(movies)
                    /\ movies'[i] = [movies[i] EXCEPT !.watched = ~movies[i].watched]
                    /\ \A k \in 1..Len(movies) : k # i => movies'[k] = movies[k]]_vars
    /\ [](\A id \in CallIds : toggled(toggled(movies, id), id) = movies)

\* toggleWatched found the seed record "The Iron Giant" and it is now watched
C6_Witness ==
    /\ last.op = "toggleWatched" /\ last.found
    /\ \E i \in 1..Len(movies) :
          movies[i].id = last.id /\ movies[i].title = "The Iron Giant" /\ movies[i].watched

\* C7: removeMovie(id) with an id of the catalog removes the matching record: the
\* catalog is one shorter, and all other records keep their fields and order;
\* with an id not in the catalog the catalog is unchanged.
C7_RemoveDropsOneRecord ==
    [][last'.op = "removeMovie" =>
          IF positionsOf(movies, last'.id) = {}
          THEN movies' = movies
          ELSE /\ Len(movies') = Len(movies) - 1
               /\ \E i \in positionsOf(movies, last'.id) :
                     movies' = SubSeq(movies, 1, i - 1) \o SubSeq(movies, i + 1, Len(movies))]_vars

---------------------------------------------------------------------------
(* The view *)

\* s has q as a substring
hasSubstring(s, q) == \E i \in 0..(Len(s) - Len(q)) : SubSeq(s, i + 1, i + Len(q)) = q

\* the record passes the status filter and the search text q (trimmed, lowercased)
passesView(m, filter, q) ==
    /\ CASE filter = "all" -> TRUE
         [] filter = "watched" -> m.watched
         [] filter = "unwatched" -> ~m.watched
    /\ hasSubstring(toLowerCase(m.title), q)

\* C8: getVisibleMovies returns exactly the records that pass the status filter
\* and whose lowercased title contains the trimmed, lowercased search text, in
\* the order of the catalog; with filter "all" and an empty search text it
\* returns the whole catalog.
C8_VisibleIsFilteredCatalog ==
    LET visible == getVisibleMovies(movies, currentFilter, currentQuery)
        q == toLowerCase(trim(currentQuery))
        keep == {i \in 1..Len(movies) : passesView(movies[i], currentFilter, q)}
    IN /\ Len(visible) = Cardinality(keep)
       /\ \A i \in keep : visible[Cardinality({j \in keep : j <= i})] = movies[i]
       /\ (currentFilter = "all" /\ currentQuery = "") => visible = movies

\* with the filter "watched" and the search text " OUT ", of the three seed
\* records only "Get Out" is visible
C8_Witness ==
    /\ currentFilter = "watched" /\ currentQuery = " OUT "
    /\ Len(movies) = 3
    /\ Len(listEl) = 1 /\ listEl[1].title = "Get Out"

\* C9: the stats shown are those of the whole catalog: total is its length,
\* watched the number of its watched records, and total = watched + remaining.
C9_StatsOfWholeCatalog ==
    /\ statsText.total = Len(movies)
    /\ statsText.watched = Cardinality({i \in 1..Len(movies) : movies[i].watched})
    /\ statsText.total = statsText.watched + statsText.remaining

\* after an add and a filter change the list shows fewer records than the stats count
C9_Witness ==
    /\ last.op = "filterChange" /\ currentFilter = "watched"
    /\ Len(movies) = 4 /\ Len(listEl) < Len(movies)
    /\ statsText = [total |-> 4, watched |-> 1, remaining |-> 3]

\* the rendered list is the view projection of the catalog
RenderedIsProjection ==
    /\ Len(listEl) = Len(getVisibleMovies(movies, currentFilter, currentQuery))
    /\ \A i \in 1..Len(listEl) :
          /\ listEl[i].id = getVisibleMovies(movies, currentFilter, currentQuery)[i].id
          /\ listEl[i].title = getVisibleMovies(movies, currentFilter, currentQuery)[i].title

\* C10: the id a click on the rendered list passes to toggleWatched or
\* removeMovie is always the id of a record of the catalog: no user-interface
\* event leads to a lookup miss.
C10_NoLookupMiss ==
    ~(last.op \in {"toggleWatched", "removeMovie"} /\ ~last.found)

====
